---- MODULE Spec2Model ----
(***************************************************************************)
(* Model of the password generator in src/main.py: build_charset,         *)
(* generate_password and the interactive driver main.                      *)
(*                                                                         *)
(* A Python str is a sequence of characters (one-character TLA+ strings);  *)
(* a list of str is a sequence of such sequences.  The dict `classes` is   *)
(* a sequence of [name, chars] records in insertion order.                 *)
(***************************************************************************)
EXTENDS Integers, Sequences, FiniteSets, TLC

VARIABLES
    pc,             \* position of the running code
    length,         \* main's / generate_password's `length`
    flags,          \* <<use_lower, use_upper, use_digits, use_symbols>>
    classes,        \* the dict `classes`
    pool,           \* the str `pool`
    how_many,       \* main's `how_many`
    i,              \* main's loop index
    password_chars, \* generate_password's working list
    pwd,            \* the value returned by the last successful call (<<>> = unbound)
    raised,         \* the exception raised by the last call, NoError if none
    ndraws,         \* draws from the secure random source made by the current call
    stdout,         \* tags of the lines printed so far
    clipboard       \* <<>> while untouched, <<s>> once pyperclip.copy(s) succeeded

vars == <<pc, length, flags, classes, pool, how_many, i, password_chars, pwd,
          raised, ndraws, stdout, clipboard>>

----------------------------------------------------------------------------
(* Bounds of the model. *)

\* largest length passed to generate_password when it is called directly
MaxLength == 4
\* largest number typed at a prompt of main
MaxTyped == 2
\* number of outcomes of one secrets.choice that are explored (evenly spaced)
DrawSamples == 2

----------------------------------------------------------------------------
(* Character data: string.ascii_lowercase, string.ascii_uppercase,         *)
(* string.digits and the literal symbol set.                               *)

ascii_lowercase ==
    <<"a","b","c","d","e","f","g","h","i","j","k","l","m",
      "n","o","p","q","r","s","t","u","v","w","x","y","z">>

ascii_uppercase ==
    <<"A","B","C","D","E","F","G","H","I","J","K","L","M",
      "N","O","P","Q","R","S","T","U","V","W","X","Y","Z">>

digits == <<"0","1","2","3","4","5","6","7","8","9">>

symbols ==
    <<"!","@","#","$","%","^","&","*","(",")","-","_","=","+",
      "[","]","{","}",";",":",",",".","<",">","/","?">>

Range(s) == {s[k] : k \in 1..Len(s)}

----------------------------------------------------------------------------
(* build_charset *)

\* mutant: the symbols are added to the dict but never appended to the pool
build_charset_nopool(use_lower, use_upper, use_digits, use_symbols) ==
    LET c1 == IF use_lower THEN <<[name |-> "lower", chars |-> ascii_lowercase]>> ELSE <<>>
        p1 == IF use_lower THEN ascii_lowercase ELSE <<>>
        c2 == IF use_upper THEN c1 \o <<[name |-> "upper", chars |-> ascii_uppercase]>> ELSE c1
        p2 == IF use_upper THEN p1 \o ascii_uppercase ELSE p1
        c3 == IF use_digits THEN c2 \o <<[name |-> "digits", chars |-> digits]>> ELSE c2
        p3 == IF use_digits THEN p2 \o digits ELSE p2
        c4 == IF use_symbols THEN c3 \o <<[name |-> "symbols", chars |-> symbols]>> ELSE c3
    IN  [classes |-> c4, pool |-> p3]

\* mutant: the digits block runs before the upper block
build_charset_swapped(use_lower, use_upper, use_digits, use_symbols) ==
    LET c1 == IF use_lower THEN <<[name |-> "lower", chars |-> ascii_lowercase]>> ELSE <<>>
        p1 == IF use_lower THEN ascii_lowercase ELSE <<>>
        c2 == IF use_digits THEN c1 \o <<[name |-> "digits", chars |-> digits]>> ELSE c1
        p2 == IF use_digits THEN p1 \o digits ELSE p1
        c3 == IF use_upper THEN c2 \o <<[name |-> "upper", chars |-> ascii_uppercase]>> ELSE c2
        p3 == IF use_upper THEN p2 \o ascii_uppercase ELSE p2
        c4 == IF use_symbols THEN c3 \o <<[name |-> "symbols", chars |-> symbols]>> ELSE c3
        p4 == IF use_symbols THEN p3 \o c4[Len(c4)].chars ELSE p3
    IN  [classes |-> c4, pool |-> p4]

\* classes = {}; pool = ""; four conditional blocks; return classes, pool
build_charset(use_lower, use_upper, use_digits, use_symbols) ==
    LET c1 == IF use_lower THEN <<[name |-> "lower", chars |-> ascii_lowercase]>> ELSE <<>>
        p1 == IF use_lower THEN ascii_lowercase ELSE <<>>
        c2 == IF use_upper THEN c1 \o <<[name |-> "upper", chars |-> ascii_uppercase]>> ELSE c1
        p2 == IF use_upper THEN p1 \o ascii_uppercase ELSE p1
        c3 == IF use_digits THEN c2 \o <<[name |-> "digits", chars |-> digits]>> ELSE c2
        p3 == IF use_digits THEN p2 \o digits ELSE p2
        c4 == IF use_symbols THEN c3 \o <<[name |-> "symbols", chars |-> symbols]>> ELSE c3
        \* pool += classes["symbols"]
        p4 == IF use_symbols THEN p3 \o c4[Len(c4)].chars ELSE p3
    IN  [classes |-> c4, pool |-> p4]

----------------------------------------------------------------------------
(* The secure random source. *)

\* the possible results of SystemRandom._randbelow(n)
randbelow(n) == 0..(n - 1)

\* DrawSamples evenly spaced results of randbelow(n), first and last included
Sampled(n) ==
    IF n <= DrawSamples THEN randbelow(n)
    ELSE {((n - 1) * s) \div (DrawSamples - 1) : s \in 0..(DrawSamples - 1)}

\* secrets.choice(seq): seq[randbelow(len(seq))], a str of one character
choice(seq) == {<<seq[k + 1]>> : k \in Sampled(Len(seq))}

Swap(x, a, b) == [x EXCEPT ![a] = x[b], ![b] = x[a]]

\* mutant: j = randbelow(k) instead of randbelow(k + 1)
RECURSIVE ShuffleFromSattolo(_, _)
ShuffleFromSattolo(x, k) ==
    IF k < 1 THEN {x}
    ELSE UNION {ShuffleFromSattolo(Swap(x, k + 1, j + 1), k - 1) : j \in randbelow(k)}

\* the loop of random.shuffle from index k down to 1 (0-based):
\*   j = randbelow(k + 1); x[k], x[j] = x[j], x[k]
RECURSIVE ShuffleFrom(_, _)
ShuffleFrom(x, k) ==
    IF k < 1 THEN {x}
    ELSE UNION {ShuffleFrom(Swap(x, k + 1, j + 1), k - 1) : j \in randbelow(k + 1)}

\* the possible contents of the list x after _sysrand.shuffle(x)
shuffle(x) == ShuffleFrom(x, Len(x) - 1)

\* "".join(parts)
RECURSIVE join(_)
join(parts) == IF parts = <<>> THEN <<>> ELSE Head(parts) \o join(Tail(parts))

----------------------------------------------------------------------------
(* generate_password *)

NoError == [kind |-> "None", msg |-> ""]

\* raise ValueError("Character pool is empty. Enable at least one character type.")
EmptyPoolError ==
    [kind |-> "ValueError",
     msg  |-> "Character pool is empty. Enable at least one character type."]

\* mutant: the message of the other failure pasted in
LengthErrorSameMessage(n) ==
    [kind |-> "ValueError",
     msg  |-> "Character pool is empty. Enable at least one character type."]

\* raise ValueError(f"Length must be at least {len(classes)} to include one of each selected type.")
LengthError(n) ==
    [kind |-> "ValueError",
     msg  |-> "Length must be at least " \o ToString(n)
              \o " to include one of each selected type."]

\* mutant: off by one, length = len(classes) - 1 passes
too_short_off_by_one(len, cls) == len < Len(cls) - 1

\* length < len(classes)
too_short(len, cls) == len < Len(cls)

\* mutant: the length check is made before the pool check
precheck_length_first(len, cls, pl) ==
    IF too_short(len, cls) THEN LengthError(Len(cls))
    ELSE IF pl = <<>> THEN EmptyPoolError
    ELSE NoError

\* the two guards at the head of generate_password, in source order
precheck(len, cls, pl) ==
    IF pl = <<>> THEN EmptyPoolError
    ELSE IF too_short(len, cls) THEN LengthError(Len(cls))
    ELSE NoError

\* the comprehension over classes.values(), from the k-th class on
RECURSIVE draw_each_from(_, _)
draw_each_from(cls, k) ==
    IF k > Len(cls) THEN {<<>>}
    ELSE {<<c>> \o rest : c \in choice(cls[k].chars), rest \in draw_each_from(cls, k + 1)}

\* mutant: the first class is skipped
draw_each_skip_first(cls) == draw_each_from(cls, 2)

\* [secrets.choice(chars) for chars in classes.values()]
draw_each(cls) == draw_each_from(cls, 1)

\* mutant: the mandatory characters are not counted
remaining_uncounted(len, chars) == len

\* remaining = length - len(password_chars)
remaining(len, chars) == len - Len(chars)

\* [secrets.choice(pool) for _ in range(remaining)]
fill(n, pl) == [1..n -> choice(pl)]

\* if not pool: raise ...; if length < len(classes): raise ...
GenCheck ==
    /\ pc = "gen_check"
    /\ raised' = precheck(length, classes, pool)
    /\ pc' = IF raised' = NoError THEN "gen_draw" ELSE "gen_raised"
    /\ ndraws' = 0
    /\ password_chars' = <<>>
    /\ UNCHANGED <<length, flags, classes, pool, how_many, i, pwd, stdout, clipboard>>

\* mutant: each mandatory draw pops its class from the dict
GenDrawConsuming ==
    /\ pc = "gen_draw"
    /\ \E m \in draw_each(classes) :
         \E f \in fill(remaining(length, m), pool) :
            /\ password_chars' = m \o f
            /\ ndraws' = ndraws + Len(m) + Len(f)
    /\ classes' = <<>>
    /\ pc' = "gen_shuffle"
    /\ UNCHANGED <<length, flags, pool, how_many, i, pwd, raised, stdout, clipboard>>

\* password_chars = [one per class]; password_chars += [remaining from pool]
GenDraw ==
    /\ pc = "gen_draw"
    /\ \E m \in draw_each(classes) :
         \E f \in fill(remaining(length, m), pool) :
            /\ password_chars' = m \o f
            /\ ndraws' = ndraws + Len(m) + Len(f)
    /\ pc' = "gen_shuffle"
    /\ UNCHANGED <<length, flags, classes, pool, how_many, i, pwd, raised, stdout, clipboard>>

\* _sysrand.shuffle(password_chars); return "".join(password_chars)
GenShuffleReturn ==
    /\ pc = "gen_shuffle"
    /\ password_chars' \in shuffle(password_chars)
    /\ ndraws' = ndraws + (IF Len(password_chars) > 1 THEN Len(password_chars) - 1 ELSE 0)
    /\ pwd' = <<join(password_chars')>>
    /\ pc' = "gen_returned"
    /\ UNCHANGED <<length, flags, classes, pool, how_many, i, raised, stdout, clipboard>>

----------------------------------------------------------------------------
(* Direct calls of generate_password with arbitrary arguments. *)

CallLengths == -1..MaxLength

InitCall ==
    /\ pc = "gen_check"
    /\ length \in CallLengths
    /\ flags \in BOOLEAN \X BOOLEAN \X BOOLEAN \X BOOLEAN
    /\ classes = build_charset(flags[1], flags[2], flags[3], flags[4]).classes
    \* the pool that goes with the classes, no pool at all, or some other pool
    /\ pool \in {build_charset(flags[1], flags[2], flags[3], flags[4]).pool, <<>>, digits}
    /\ how_many = 0
    /\ i = 0
    /\ password_chars = <<>>
    /\ pwd = <<>>
    /\ raised = NoError
    /\ ndraws = 0
    /\ stdout = <<>>
    /\ clipboard = <<>>

NextCall == GenCheck \/ GenDraw \/ GenShuffleReturn

SpecCall == InitCall /\ [][NextCall]_vars

----------------------------------------------------------------------------
(* Console input: str.strip, str.lower, int(str). *)

RECURSIVE lstrip(_)
lstrip(s) == IF s # <<>> /\ Head(s) = " " THEN lstrip(Tail(s)) ELSE s

RECURSIVE rstrip(_)
rstrip(s) ==
    IF s # <<>> /\ s[Len(s)] = " " THEN rstrip(SubSeq(s, 1, Len(s) - 1)) ELSE s

strip(s) == rstrip(lstrip(s))

\* str.lower on ASCII letters
lower_char(c) ==
    IF \E k \in 1..Len(ascii_uppercase) : ascii_uppercase[k] = c
    THEN ascii_lowercase[CHOOSE k \in 1..Len(ascii_uppercase) : ascii_uppercase[k] = c]
    ELSE c

lower(s) == [k \in 1..Len(s) |-> lower_char(s[k])]

digit_value(c) == (CHOOSE k \in 1..Len(digits) : digits[k] = c) - 1

unsigned(s) == IF s # <<>> /\ Head(s) \in {"+", "-"} THEN Tail(s) ELSE s

\* whether int(s) succeeds on a stripped s: an optional sign, then digits only
is_int(s) == unsigned(s) # <<>> /\ \A k \in 1..Len(unsigned(s)) : unsigned(s)[k] \in Range(digits)

RECURSIVE digits_value(_)
digits_value(s) ==
    IF s = <<>> THEN 0 ELSE 10 * digits_value(SubSeq(s, 1, Len(s) - 1)) + digit_value(s[Len(s)])

\* int(s) when is_int(s)
int(s) == IF Head(s) = "-" THEN 0 - digits_value(unsigned(s)) ELSE digits_value(unsigned(s))

\* what the user types for the number n
RECURSIVE typed_digits(_)
typed_digits(n) ==
    IF n < 10 THEN <<digits[n + 1]>>
    ELSE typed_digits(n \div 10) \o <<digits[(n % 10) + 1]>>

typed(n) == IF n < 0 THEN <<"-">> \o typed_digits(0 - n) ELSE typed_digits(n)

NotNumbers == {<<>>, <<"x">>, <<"1", "x">>, <<"-">>}

LengthInputs ==
    {typed(n) : n \in -1..MaxTyped} \cup NotNumbers \cup {<<" ", "2", " ">>, <<"+", "1">>, <<"0", "0">>}

HowManyInputs ==
    {typed(n) : n \in -1..MaxTyped} \cup NotNumbers \cup {<<" ">>, <<"0", "2">>}

Responses ==
    {<<>>, <<"y">>, <<"Y", "e", "s">>, <<"n">>, <<"N", "O">>, <<" ", "n", " ">>, <<"q">>}

\* the responses on which ask_yes_no returns; on any other it prompts again
accepted(resp) ==
    lower(strip(resp)) \in {<<>>, <<"y">>, <<"y", "e", "s">>, <<"n">>, <<"n", "o">>}

\* the value ask_yes_no returns on an accepted response
ask_yes_no(resp, default) ==
    IF lower(strip(resp)) = <<>> THEN default
    ELSE lower(strip(resp)) \in {<<"y">>, <<"y", "e", "s">>}

----------------------------------------------------------------------------
(* main *)

\* mutant: zero passes the batch-size check
how_many_rejected_negative_only(n) == n < 0

\* if how_many <= 0: print(...); return
how_many_rejected(n) == n <= 0

\* the head of `for i in range(how_many)`: another call, or on to the copy step
loop_head(next_i, n) == IF next_i < n THEN "gen_check" ELSE "copy"

Init ==
    /\ pc = "ask_length"
    /\ length = 0
    /\ flags = <<TRUE, TRUE, TRUE, TRUE>>
    /\ classes = <<>>
    /\ pool = <<>>
    /\ how_many = 0
    /\ i = 0
    /\ password_chars = <<>>
    /\ pwd = <<>>
    /\ raised = NoError
    /\ ndraws = 0
    /\ stdout = <<>>
    /\ clipboard = <<>>

\* the banner and the length prompt: length = int(input(...).strip())
ReadLength ==
    /\ pc = "ask_length"
    /\ \E typed_in \in LengthInputs :
         LET s == strip(typed_in) IN
         IF ~is_int(s)
         THEN /\ stdout' = stdout \o <<"banner", "invalid_length">>
              /\ pc' = "done"
              /\ UNCHANGED length
         ELSE IF int(s) <= 0
         THEN /\ stdout' = stdout \o <<"banner", "nonpositive_length">>
              /\ pc' = "done"
              /\ length' = int(s)
         ELSE /\ stdout' = stdout \o <<"banner">>
              /\ pc' = "ask_flags"
              /\ length' = int(s)
    /\ UNCHANGED <<flags, classes, pool, how_many, i, password_chars, pwd, raised,
                   ndraws, clipboard>>

\* the four ask_yes_no questions, build_charset, and the `if not pool` exit
AskFlags ==
    /\ pc = "ask_flags"
    /\ \E r1 \in Responses, r2 \in Responses, r3 \in Responses, r4 \in Responses :
         /\ accepted(r1) /\ accepted(r2) /\ accepted(r3) /\ accepted(r4)
         /\ flags' = <<ask_yes_no(r1, TRUE), ask_yes_no(r2, TRUE),
                       ask_yes_no(r3, TRUE), ask_yes_no(r4, TRUE)>>
    /\ classes' = build_charset(flags'[1], flags'[2], flags'[3], flags'[4]).classes
    /\ pool' = build_charset(flags'[1], flags'[2], flags'[3], flags'[4]).pool
    /\ IF pool' = <<>>
       THEN stdout' = stdout \o <<"no_charset">> /\ pc' = "done"
       ELSE stdout' = stdout /\ pc' = "ask_how_many"
    /\ UNCHANGED <<length, how_many, i, password_chars, pwd, raised, ndraws, clipboard>>

\* the batch-size prompt, the header line and the entry into the loop
ReadHowMany ==
    /\ pc = "ask_how_many"
    /\ \E typed_in \in HowManyInputs :
         LET s == strip(typed_in) IN
         IF s # <<>> /\ ~is_int(s)
         THEN /\ stdout' = stdout \o <<"invalid_how_many">>
              /\ pc' = "done"
              /\ UNCHANGED <<how_many, i>>
         ELSE LET n == IF s = <<>> THEN 1 ELSE int(s) IN
              IF how_many_rejected(n)
              THEN /\ stdout' = stdout \o <<"nonpositive_how_many">>
                   /\ pc' = "done"
                   /\ how_many' = n
                   /\ UNCHANGED i
              ELSE /\ stdout' = stdout \o <<"header">>
                   /\ how_many' = n
                   /\ i' = 0
                   /\ pc' = loop_head(0, n)
    /\ UNCHANGED <<length, flags, classes, pool, password_chars, pwd, raised, ndraws,
                   clipboard>>

\* pwd = generate_password(...) returned: print(pwd), next iteration
LoopPrint ==
    /\ pc = "gen_returned"
    /\ stdout' = Append(stdout, "pwd")
    /\ i' = i + 1
    /\ pc' = loop_head(i + 1, how_many)
    /\ UNCHANGED <<length, flags, classes, pool, how_many, password_chars, pwd, raised,
                   ndraws, clipboard>>

\* except ValueError as e: print(f"Error: {e}"); return
LoopExcept ==
    /\ pc = "gen_raised"
    /\ raised.kind = "ValueError"
    /\ stdout' = Append(stdout, "error")
    /\ pc' = "done"
    /\ UNCHANGED <<length, flags, classes, pool, how_many, i, password_chars, pwd, raised,
                   ndraws, clipboard>>

\* the clipboard step: import pyperclip may fail, pyperclip.copy(pwd) may fail
\* (an unbound pwd is a NameError, caught by `except Exception`)
Copy ==
    /\ pc = "copy"
    /\ \E import_ok \in BOOLEAN, copy_works \in BOOLEAN :
         LET copy_ok == import_ok /\ copy_works /\ pwd # <<>> IN
         /\ clipboard' = IF copy_ok THEN pwd ELSE clipboard
         /\ stdout' = stdout \o <<IF copy_ok THEN "copied" ELSE "tip", "done">>
    /\ pc' = "done"
    /\ UNCHANGED <<length, flags, classes, pool, how_many, i, password_chars, pwd, raised,
                   ndraws>>

Next ==
    \/ ReadLength
    \/ AskFlags
    \/ ReadHowMany
    \/ GenCheck
    \/ GenDraw
    \/ GenShuffleReturn
    \/ LoopPrint
    \/ LoopExcept
    \/ Copy

Spec == Init /\ [][Next]_vars

----------------------------------------------------------------------------
(* Properties. *)

GenPcs == {"gen_check", "gen_draw", "gen_shuffle", "gen_returned", "gen_raised"}

Count(s, e) == Cardinality({k \in 1..Len(s) : s[k] = e})

SameBag(a, b) ==
    /\ Len(a) = Len(b)
    /\ \A e \in Range(a) \cup Range(b) : Count(a, e) = Count(b, e)

AllPermutations(x) ==
    {[k \in 1..Len(x) |-> x[p[k]]] : p \in Permutations(1..Len(x))}

\* classes and pool are what build_charset returns for flags
Built ==
    /\ classes = build_charset(flags[1], flags[2], flags[3], flags[4]).classes
    /\ pool = build_charset(flags[1], flags[2], flags[3], flags[4]).pool

\* C1: a call with a non-empty pool and length >= |classes| returns, and the
\* password it returns has exactly `length` characters.
C1_Length ==
    (pc \in {"gen_returned", "gen_raised"} /\ pool # <<>> /\ length >= Len(classes))
        => /\ pc = "gen_returned"
           /\ pwd # <<>>
           /\ Len(pwd[1]) = length

C1_Witness ==
    pc = "gen_returned" /\ Len(classes) = 4 /\ length = 4 /\ Len(pwd[1]) = 4

\* C2: the password returned by a successful call contains, for every class
\* in `classes`, at least one character of that class (after the shuffle).
C2_Coverage ==
    pc = "gen_returned"
        => \A k \in 1..Len(classes) :
              \E j \in 1..Len(pwd[1]) : pwd[1][j] \in Range(classes[k].chars)

C2_Witness ==
    /\ pc = "gen_returned"
    /\ Len(classes) = 4
    /\ pwd[1][1] \in Range(symbols)
    /\ pwd[1][Len(pwd[1])] \in Range(ascii_lowercase)

\* C3: with classes and pool produced by build_charset, every character of
\* the password returned by a successful call is a member of pool.
C3_PoolMembership ==
    (pc = "gen_returned" /\ Built)
        => \A j \in 1..Len(pwd[1]) : pwd[1][j] \in Range(pool)

C3_Witness ==
    /\ pc = "gen_returned"
    /\ Built
    /\ Len(classes) = 2
    /\ Len(pwd[1]) = 4
    /\ \E j \in 1..4 : pwd[1][j] \in Range(digits)
    /\ \E j \in 1..4 : pwd[1][j] \in Range(symbols)

\* C4: a call with an empty pool fails with the empty-pool error whatever
\* length and classes are, also when length < |classes|; it draws nothing and
\* returns no password.
C4_EmptyPool ==
    pool = <<>>
        => /\ pc \in {"gen_check", "gen_raised"}
           /\ pc = "gen_raised" => raised = EmptyPoolError
           /\ raised.msg # LengthError(Len(classes)).msg
           /\ ndraws = 0
           /\ password_chars = <<>>
           /\ pwd = <<>>

C4_Witness ==
    /\ pc = "gen_raised"
    /\ pool = <<>>
    /\ Len(classes) = 3
    /\ length < Len(classes)
    /\ raised = EmptyPoolError

\* C5: a call with a non-empty pool and length < |classes| (zero and negative
\* lengths included) fails with the insufficient-length error, makes no random
\* draw and returns no password, not even a partial one.
C5_InsufficientLength ==
    (pool # <<>> /\ length < Len(classes))
        => /\ pc \in {"gen_check", "gen_raised"}
           /\ pc = "gen_raised" => raised = LengthError(Len(classes))
           /\ raised.msg # EmptyPoolError.msg
           /\ ndraws = 0
           /\ password_chars = <<>>
           /\ pwd = <<>>

C5_Witness ==
    /\ pc = "gen_raised"
    /\ pool # <<>>
    /\ length = -1
    /\ raised = LengthError(Len(classes))

AfterBuild ==
    /\ pc \notin {"ask_length", "ask_flags"}
    /\ stdout # <<>>
    /\ stdout[Len(stdout)] \notin {"invalid_length", "nonpositive_length"}

ClassNames == <<"lower", "upper", "digits", "symbols">>

ClassChars == <<ascii_lowercase, ascii_uppercase, digits, symbols>>

\* the indices of the enabled classes, ascending
EnabledClasses == SelectSeq(<<1, 2, 3, 4>>, LAMBDA k : flags[k])

\* C7: for each of the 16 flag combinations build_charset returns exactly the
\* enabled classes in the order lower, upper, digits, symbols, each with its
\* fixed sequence of 26, 26, 10 and 26 characters, and the pool is their
\* concatenation in that order; the pool is empty iff the class set is empty
\* iff all four flags are false.
C7_BuildCharset ==
    AfterBuild
        => /\ Len(classes) = Len(EnabledClasses)
           /\ \A j \in 1..Len(classes) :
                 /\ classes[j].name = ClassNames[EnabledClasses[j]]
                 /\ classes[j].chars = ClassChars[EnabledClasses[j]]
                 /\ classes[j].chars # <<>>
           /\ <<Len(ascii_lowercase), Len(ascii_uppercase), Len(digits), Len(symbols)>>
                 = <<26, 26, 10, 26>>
           /\ pool = (IF flags[1] THEN ascii_lowercase ELSE <<>>)
                     \o (IF flags[2] THEN ascii_uppercase ELSE <<>>)
                     \o (IF flags[3] THEN digits ELSE <<>>)
                     \o (IF flags[4] THEN symbols ELSE <<>>)
           /\ (pool = <<>>) <=> (classes = <<>>)
           /\ (pool = <<>>) <=> (flags = <<FALSE, FALSE, FALSE, FALSE>>)

C7_Witness ==
    /\ AfterBuild
    /\ flags = <<TRUE, FALSE, TRUE, TRUE>>
    /\ Len(classes) = 3
    /\ Len(pool) = 62

\* the buffer holds one one-character string per class, in class order, then
\* length - |classes| one-character strings taken from the pool
BufferShape ==
    /\ Len(password_chars) = length
    /\ Len(password_chars) >= Len(classes)
    /\ \A k \in 1..Len(password_chars) :
          /\ Len(password_chars[k]) = 1
          /\ IF k <= Len(classes)
             THEN password_chars[k][1] \in Range(classes[k].chars)
             ELSE password_chars[k][1] \in Range(pool)

\* the buffer as the shuffle finds it, and what the shuffle can make of it
BufferBeforeShuffle ==
    /\ BufferShape
    /\ shuffle(password_chars) = AllPermutations(password_chars)

\* a step that shuffles and returns keeps the multiset of characters
ShuffleStepReorders ==
    /\ SameBag(password_chars', password_chars)
    /\ SameBag(pwd'[1], join(password_chars))

\* C8: before the shuffle the buffer is one character per class in class
\* order followed by length - |classes| pool characters; the shuffle only
\* reorders it (the password returned is a permutation of the buffer), and
\* every permutation of the buffer is a possible result of the shuffle.
C8_ShufflePermutes ==
    /\ [](pc = "gen_shuffle" => BufferBeforeShuffle)
    /\ [][pc = "gen_shuffle" => ShuffleStepReorders]_vars

C8_Witness ==
    /\ pc = "gen_returned"
    /\ Len(classes) = 2
    /\ classes[1].name = "lower"
    /\ pwd = << <<"9", "9", "9", "a">> >>

\* the lines of stdout that are passwords
Printed == Count(stdout, "pwd")

\* a step leaves the arguments of generate_password as they were
ArgumentsKept ==
    /\ classes' = classes
    /\ pool' = pool
    /\ length' = length
    /\ flags' = flags

\* what the next step of a call can produce is fixed by the arguments (and, for
\* the shuffle, by the buffer): every draw and every reordering they allow can
\* be taken, whatever i, pwd, stdout and ndraws are
OutcomesOpen ==
    /\ pc = "gen_draw"
          => \A m \in draw_each(classes) :
                \A f \in fill(length - Len(m), pool) :
                   ENABLED (GenDraw /\ password_chars' = m \o f)
    /\ pc = "gen_shuffle"
          => \A p \in AllPermutations(password_chars) :
                ENABLED (GenShuffleReturn /\ pwd' = <<join(p)>>)

\* C9: generate_password leaves classes and pool (and length) unchanged on
\* success and on failure; every call of a batch made by main receives the
\* classes and pool build_charset produced once, and what a call returns is one
\* of the outcomes those arguments allow, whatever the earlier calls returned.
C9_Frame ==
    /\ [][(pc \in GenPcs) => ArgumentsKept]_vars
    /\ [](pc \in GenPcs => Built)
    /\ [](pc = "gen_returned"
            => \E m \in draw_each(build_charset(flags[1], flags[2], flags[3], flags[4]).classes) :
                 \E f \in fill(length - Len(m),
                               build_charset(flags[1], flags[2], flags[3], flags[4]).pool) :
                    SameBag(password_chars, m \o f) /\ pwd[1] = join(password_chars))
    /\ []OutcomesOpen

C9_Witness ==
    /\ pc = "gen_returned"
    /\ i = 1
    /\ how_many = 2
    /\ Printed = 1
    /\ Len(classes) = 2

\* main has reached the clipboard step
CopyReached == pc = "copy" \/ "copied" \in Range(stdout) \/ "tip" \in Range(stdout)

\* main has returned early
Aborted ==
    /\ pc = "done"
    /\ stdout[Len(stdout)] \in {"invalid_length", "nonpositive_length", "no_charset",
                                 "invalid_how_many", "nonpositive_how_many", "error"}

\* C10: main reaches the clipboard step only with how_many >= 1 and after all
\* how_many calls succeeded, and what it copies is the password of the last
\* call; on every aborting path it returns without reaching that step; a call
\* can only fail as the first of the batch, before any password is printed.
C10_CopyAfterPassword ==
    /\ CopyReached
          => /\ how_many >= 1
             /\ i = how_many
             /\ Printed = how_many
             /\ raised = NoError
             /\ pwd = <<join(password_chars)>>
    /\ clipboard # <<>> => (CopyReached /\ clipboard = pwd)
    /\ (pc = "done" /\ ~CopyReached) => (Aborted /\ clipboard = <<>>)
    /\ Aborted => (~CopyReached /\ clipboard = <<>>)
    /\ (pc = "gen_raised" \/ "error" \in Range(stdout))
          => (i = 0 /\ Printed = 0 /\ pwd = <<>> /\ raised # NoError)

C10_Witness ==
    /\ pc = "done"
    /\ how_many = 2
    /\ Printed = 2
    /\ clipboard = pwd
    /\ clipboard # <<>>

====
